---- MODULE Spec2Model ----
(***************************************************************************)
(* Model of the YouTube transcription pipeline:                            *)
(*   youtube_downloader.py   YouTubeDownloader  (Channel Registry and      *)
(*                           Acquisition Engine)                           *)
(*   transcript_processor.py TranscriptProcessor / TranscriptHandler       *)
(*                           (Transcript Matcher, Artifact Pipeline,       *)
(*                           Watch Loop)                                   *)
(*   main.py                 run_downloader / main (Run Scheduler)         *)
(* The catalog (Supabase tables channels, videos, transcripts,             *)
(* processed_content) is the only state the two threads share.  A catalog  *)
(* call, a fetch-engine call or an inference call either returns or raises;*)
(* a call that raises leaves the catalog as it was.                        *)
(***************************************************************************)
EXTENDS Integers, Sequences, FiniteSets, TLC

(***************************************************************************)
(* Bounds of the model and values of the environment                       *)
(***************************************************************************)
\* number of run_downloader() invocations explored
MaxRuns == 2
\* number of creation events the event source delivers a second time
MaxDup == 1
\* MAX_VIDEOS_PER_RUN as set in the environment (the default is 10)
max_videos == 2
\* title_part[:20]
TitlePrefixLen == 20
\* transcript_text[:8000]
PromptLimit == 8000
\* schedule.every(2).hours
IntervalHours == 2
\* time.sleep(60)
PollSeconds == 60
\* the sleeps of the polling loop that fill one interval
PollsPerInterval == (IntervalHours * 3600) \div PollSeconds

ChannelIds == {"c1", "c2"}
VideoIds == {"v1", "v2", "v3", "v4", "v5", "v6"}

\* CHANNEL_LIST values the downloader may be constructed with; "" is the
\* blank identifier a trailing comma or an unset variable yields
ChannelLists == {<<"c1", "", "c2">>, <<"c1">>}

\* the remote entry list of each channel, most recent first, at the start
InitialRemote == [c \in ChannelIds |-> IF c = "c1" THEN <<"v2", "v1">> ELSE <<"v4">>]
\* entries uploaded later, in upload order
LaterUploads == [c \in ChannelIds |-> IF c = "c1" THEN <<"v3">> ELSE <<>>]

\* strings are sequences of one-character strings
\* "Intro to Systems"
IntroTitle ==
  <<"I", "n", "t", "r", "o", " ", "t", "o", " ", "S", "y", "s", "t", "e",
    "m", "s">>
\* "Advanced Distributed Computing", longer than the prefix searched for
AdvancedTitle ==
  <<"A", "d", "v", "a", "n", "c", "e", "d", " ", "D", "i", "s", "t", "r",
    "i", "b", "u", "t", "e", "d", " ", "C", "o", "m", "p", "u", "t", "i",
    "n", "g">>

Title(v) ==
  CASE v = "v1" -> <<"A", " ", "b">>
    [] v = "v2" -> <<"a", " ", "b", "c">>
    [] v = "v3" -> <<"x", "y">>
    [] v = "v4" -> <<"q">>
    [] v = "v5" -> IntroTitle
    [] OTHER    -> AdvancedTitle

Suffix == <<"_", "t", "r", "a", "n", "s", "c", "r", "i", "p", "t">>
DotTxt == <<".", "t", "x", "t">>
\* names of the files that can appear in the watched folder
FileBC == <<"1", "_", "b", "c">> \o Suffix \o DotTxt
FileAB == <<"3", "_", "a", "_", "b">> \o Suffix \o DotTxt
FileNames == {FileBC, FileAB}
\* a file whose fragment matches the title of v4 alone
FileQ == <<"4", "_", "q">> \o Suffix \o DotTxt

\* 20240101_Intro_to_Systems_transcript.txt
FileIntro ==
  <<"2", "0", "2", "4", "0", "1", "0", "1", "_", "I", "n", "t", "r", "o",
    "_", "t", "o", "_", "S", "y", "s", "t", "e", "m", "s">> \o Suffix \o DotTxt
\* 1_advanced_distributed_systems_transcript.txt: the text after the first
\* "_" is longer than the prefix searched for
FileAdvanced ==
  <<"1", "_", "a", "d", "v", "a", "n", "c", "e", "d", "_", "d", "i", "s",
    "t", "r", "i", "b", "u", "t", "e", "d", "_", "s", "y", "s", "t", "e",
    "m", "s">> \o Suffix \o DotTxt
\* notes_transcript.txt: no "_" is left once "_transcript" is removed
FileNoSep == <<"n", "o", "t", "e", "s">> \o Suffix \o DotTxt
\* 1_zz_transcript.txt: no stored title contains "zz"
FileZZ == <<"1", "_", "z", "z">> \o Suffix \o DotTxt
MatcherFiles == {FileIntro, FileAdvanced, FileNoSep, FileZZ}

\* files matching the title of v4 whose text has PromptLimit characters,
\* one more, and 50,000
FileFull == <<"5", "_", "q">> \o Suffix \o DotTxt
FileOver == <<"6", "_", "q">> \o Suffix \o DotTxt
FileLong == <<"7", "_", "q">> \o Suffix \o DotTxt
TextFiles == {FileQ, FileFull, FileOver, FileLong}

AllFiles == FileNames \cup MatcherFiles \cup TextFiles

(***************************************************************************)
(* Strings                                                                 *)
(***************************************************************************)
Take(s, n) == SubSeq(s, 1, IF n < Len(s) THEN n ELSE Len(s))
Drop(s, n) == SubSeq(s, n + 1, Len(s))
Range(s) == {s[i] : i \in DOMAIN s}

\* str.split() without argument: the number of runs of characters that are
\* not white space
Whitespace == {" ", "\n", "\t"}
WordCount(s) ==
  Cardinality({i \in DOMAIN s :
                 s[i] \notin Whitespace /\ (i = 1 \/ s[i - 1] \in Whitespace)})

UpperCase == <<"A", "B", "C", "D", "E", "F", "G", "H", "I", "J", "K", "L", "M",
               "N", "O", "P", "Q", "R", "S", "T", "U", "V", "W", "X", "Y", "Z">>
LowerCase == <<"a", "b", "c", "d", "e", "f", "g", "h", "i", "j", "k", "l", "m",
               "n", "o", "p", "q", "r", "s", "t", "u", "v", "w", "x", "y", "z">>
\* the comparison made case-sensitive (LIKE)
Lower_Identity(c) == c
\* ILIKE compares letters whatever their case
Lower(c) ==
  IF \E i \in DOMAIN UpperCase : UpperCase[i] = c
  THEN LowerCase[CHOOSE i \in DOMAIN UpperCase : UpperCase[i] = c]
  ELSE c

StartsWith(s, p) == Len(p) <= Len(s) /\ SubSeq(s, 1, Len(p)) = p
EndsWith(s, p) == Len(p) <= Len(s) /\ SubSeq(s, Len(s) - Len(p) + 1, Len(s)) = p

\* Path.stem: the name without its last suffix
Stem(name) ==
  LET dots == {i \in DOMAIN name : name[i] = "."}
      last == CHOOSE i \in dots : \A j \in dots : j <= i
  IN IF dots # {} /\ last > 1 /\ last < Len(name)
     THEN SubSeq(name, 1, last - 1)
     ELSE name

\* str.replace(old, ''): every occurrence, left to right, not overlapping
RECURSIVE Remove(_, _)
Remove(s, old) ==
  IF s = <<>> THEN <<>>
  ELSE IF StartsWith(s, old) THEN Remove(Drop(s, Len(old)), old)
  ELSE <<Head(s)>> \o Remove(Tail(s), old)

\* str.split(sep, 1)
Split1(s, sep) ==
  LET at == {i \in DOMAIN s : s[i] = sep}
      first == CHOOSE i \in at : \A j \in at : i <= j
  IN IF at = {} THEN <<s>>
     ELSE <<SubSeq(s, 1, first - 1), SubSeq(s, first + 1, Len(s))>>

\* s ILIKE p: case-insensitive; in the pattern "_" stands for any one
\* character and "%" (in a PostgREST filter "*" as well) for any run of
\* characters
RECURSIVE LikeMatch(_, _)
LikeMatch(s, p) ==
  IF p = <<>> THEN s = <<>>
  ELSE IF Head(p) \in {"%", "*"}
       THEN LikeMatch(s, Tail(p)) \/ (s # <<>> /\ LikeMatch(Tail(s), p))
       ELSE /\ s # <<>>
            /\ Head(p) = "_" \/ Lower(Head(p)) = Lower(Head(s))
            /\ LikeMatch(Tail(s), Tail(p))
\* .ilike('title', f'%{frag}%')
ILikeContains(title, frag) == LikeMatch(title, <<"%">> \o frag \o <<"%">>)

\* a text of n characters: words of four letters, a blank after each
Words(n) == SubSeq([i \in 1..n |-> IF i % 5 = 0 THEN " " ELSE "w"], 1, n)
\* f.read(): the text of each file; that of the short files is the first four
\* characters of the name, a line break and the word "ok"
Content(f) ==
  CASE f = FileFull -> Words(PromptLimit)
    [] f = FileOver -> Words(PromptLimit + 1)
    [] f = FileLong -> Words(50000)
    [] OTHER -> Take(f, 4) \o <<"\n", "o", "k">>

ProcessTypes == <<"summary", "chapters", "keywords", "insights">>

\* str.strip(): white space removed at both ends
RECURSIVE LStrip(_)
LStrip(s) == IF s # <<>> /\ Head(s) \in Whitespace THEN LStrip(Tail(s)) ELSE s
RECURSIVE RStrip(_)
RStrip(s) ==
  IF s # <<>> /\ s[Len(s)] \in Whitespace THEN RStrip(SubSeq(s, 1, Len(s) - 1)) ELSE s
Strip(s) == RStrip(LStrip(s))

\* str.split(sep): every piece between two separators, the empty ones too
RECURSIVE SplitAll(_, _)
SplitAll(s, sep) ==
  LET parts == Split1(s, sep)
  IN IF Len(parts) = 1 THEN parts ELSE <<parts[1]>> \o SplitAll(parts[2], sep)

(***************************************************************************)
(* json.loads, for the documents made of objects, arrays, strings without  *)
(* escapes, integers and the three literals.  The value read is            *)
(*   [dict |-> pairs], [list |-> values], [str |-> text], [int |-> n],     *)
(*   [bool |-> b] or [null |-> TRUE].                                      *)
(***************************************************************************)
Digits == <<"0", "1", "2", "3", "4", "5", "6", "7", "8", "9">>
JsonFail == [ok |-> FALSE]
JsonRead(v, r) == [ok |-> TRUE, val |-> v, rest |-> r]

\* a string: from the opening quote to the next one; a control character
\* inside it is an error (strict mode), as is, here, a backslash
ParseString(s) ==
  LET close == {i \in 2..Len(s) : s[i] = "\""}
      end == CHOOSE i \in close : \A j \in close : i <= j
  IN IF close = {} THEN JsonFail
     ELSE IF \E i \in 2..(end - 1) : s[i] \in {"\n", "\t", "\\"} THEN JsonFail
     ELSE JsonRead([str |-> SubSeq(s, 2, end - 1)], Drop(s, end))

RECURSIVE DigitsValue(_)
DigitsValue(ds) ==
  IF ds = <<>> THEN 0
  ELSE 10 * DigitsValue(SubSeq(ds, 1, Len(ds) - 1))
       + (CHOOSE d \in 0..9 : Digits[d + 1] = ds[Len(ds)])
\* an integer: an optional "-", then "0" or digits not starting with "0"
ParseInt(s) ==
  LET neg == s # <<>> /\ Head(s) = "-"
      body == IF neg THEN Tail(s) ELSE s
      stop == {i \in 1..(Len(body) + 1) : i > Len(body) \/ body[i] \notin Range(Digits)}
      n == (CHOOSE i \in stop : \A j \in stop : i <= j) - 1
      ds == SubSeq(body, 1, n)
  IN IF n = 0 \/ (n > 1 /\ Head(ds) = "0") THEN JsonFail
     ELSE IF n < Len(body) /\ body[n + 1] \in {".", "e", "E"} THEN JsonFail
     ELSE JsonRead([int |-> IF neg THEN 0 - DigitsValue(ds) ELSE DigitsValue(ds)],
                   Drop(body, n))

\* dict[k] = v: the last value of a repeated key is kept, at the key's place
Put(pairs, k, v) ==
  IF \E i \in DOMAIN pairs : pairs[i][1] = k
  THEN [i \in DOMAIN pairs |-> IF pairs[i][1] = k THEN <<k, v>> ELSE pairs[i]]
  ELSE Append(pairs, <<k, v>>)

RECURSIVE ParseValue(_)
RECURSIVE ParseElements(_, _)
RECURSIVE ParseMembers(_, _)
ParseValue(s0) ==
  LET s == LStrip(s0)
  IN IF s = <<>> THEN JsonFail
     ELSE CASE Head(s) = "\"" -> ParseString(s)
            [] Head(s) = "[" ->
                 LET r == LStrip(Tail(s))
                 IN IF r # <<>> /\ Head(r) = "]"
                    THEN JsonRead([list |-> <<>>], Tail(r))
                    ELSE ParseElements(Tail(s), <<>>)
            [] Head(s) = "{" ->
                 LET r == LStrip(Tail(s))
                 IN IF r # <<>> /\ Head(r) = "}"
                    THEN JsonRead([dict |-> <<>>], Tail(r))
                    ELSE ParseMembers(Tail(s), <<>>)
            [] Head(s) = "-" \/ Head(s) \in Range(Digits) -> ParseInt(s)
            [] StartsWith(s, <<"t", "r", "u", "e">>) -> JsonRead([bool |-> TRUE], Drop(s, 4))
            [] StartsWith(s, <<"f", "a", "l", "s", "e">>) ->
                 JsonRead([bool |-> FALSE], Drop(s, 5))
            [] StartsWith(s, <<"n", "u", "l", "l">>) -> JsonRead([null |-> TRUE], Drop(s, 4))
            [] OTHER -> JsonFail
ParseElements(s, acc) ==
  LET v == ParseValue(s)
      r == LStrip(v.rest)
  IN IF ~v.ok \/ r = <<>> THEN JsonFail
     ELSE IF Head(r) = "," THEN ParseElements(Tail(r), Append(acc, v.val))
     ELSE IF Head(r) = "]" THEN JsonRead([list |-> Append(acc, v.val)], Tail(r))
     ELSE JsonFail
ParseMembers(s0, acc) ==
  LET s == LStrip(s0)
      k == IF s # <<>> /\ Head(s) = "\"" THEN ParseString(s) ELSE JsonFail
      c == LStrip(k.rest)
      v == IF c # <<>> /\ Head(c) = ":" THEN ParseValue(Tail(c)) ELSE JsonFail
      r == LStrip(v.rest)
  IN IF ~k.ok \/ ~v.ok \/ r = <<>> THEN JsonFail
     ELSE IF Head(r) = "," THEN ParseMembers(Tail(r), Put(acc, k.val.str, v.val))
     ELSE IF Head(r) = "}" THEN JsonRead([dict |-> Put(acc, k.val.str, v.val)], Tail(r))
     ELSE JsonFail

\* json.loads(content): the whole text is one value, white space around it
JsonLoads(content) ==
  LET v == ParseValue(content)
  IN IF v.ok /\ LStrip(v.rest) = <<>> THEN v ELSE JsonFail

\* the responses of the model: an object, the same cut short, a list of
\* words, a number, an array, prose, nothing
ReplyObject == <<"{", "\"", "a", "\"", ":", " ", "1", "}">>
ReplyCut == <<"{", "\"", "a", "\"", ":", " ", "1">>
ReplyWords == <<"a", ",", " ", "b", " ", ",", "c">>
ReplyNumber == <<"7">>
ReplyArray == <<"[", "\"", "x", "\"", ",", " ", "n", "u", "l", "l", "]", "\n">>
ReplyProse == <<"N", "o", " ", "{", "}", ".">>
ReplyEmpty == <<>>
Replies ==
  {ReplyObject, ReplyCut, ReplyWords, ReplyNumber, ReplyArray, ReplyProse, ReplyEmpty}

(***************************************************************************)
(* State                                                                   *)
(***************************************************************************)
VARIABLES
  \* the catalog: each table is the sequence of its rows, a row's primary
  \* key ("id") is its position
  channels, videos, transcripts, processed_content,
  \* the fetch engine: the entry list of each channel and the uploads to come
  remote, pending,
  \* the foreground task (main.py, YouTubeDownloader)
  pcA, runNo, channel_list, syncIdx, active_channels, chIdx,
  entries, entIdx, videos_processed, video_db_id,
  \* history of the current run and of the current download_channel_videos call
  listed, runAttempted, runRaised, runFailed, videosAtRunStart, lastChange,
  sameConfig,
  \* the watched folder, the files still to arrive in it, the creation events
  \* the observer has queued and the number of events delivered twice
  folder, arrivals, events, dups,
  \* the derivation tasks that raise (in the inference call, the parsing or the
  \* insert); which ones do is a fact of the environment, fixed for a behaviour
  failing,
  \* the background task (TranscriptProcessor.run and the observer's handler)
  pcW, observing, scanTodo, caller, path, video, transcript_id, taskIdx,
  \* history of the current scan
  foundAtStart, scanVideo, scanResolved, scanCreated,
  \* the paths process_transcript has been called with
  handed,
  \* the transcript text rendered into the prompt of the current derivation
  \* task, and the text the inference service answers each task with (a fact
  \* of the environment, fixed for a behaviour)
  prompt, replies,
  \* the identifiers the current sync_channels call has upserted
  synced,
  \* main.py: the deployment shape, the position of main(), the polls still
  \* to go before the scheduled job is due, and the interruption of the
  \* process (KeyboardInterrupt) with what became of the observer
  mode, pcM, wait, interrupted, stopped,
  \* history: the runs whose run() raised into run_downloader
  raisedRuns

catalogVars == <<channels, videos, transcripts, processed_content>>
remoteVars == <<remote, pending>>
acqVars == <<pcA, runNo, channel_list, syncIdx, active_channels, chIdx,
             entries, entIdx, videos_processed, video_db_id>>
histVars == <<listed, runAttempted, runRaised, runFailed, videosAtRunStart,
              lastChange, sameConfig>>
fsVars == <<folder, arrivals, events, dups, failing>>
procVars == <<pcW, observing, scanTodo, caller, path, video, transcript_id, taskIdx>>
scanHist == <<foundAtStart, scanVideo, scanResolved, scanCreated>>
watchVars == <<fsVars, procVars, scanHist>>
mainVars == <<mode, pcM, wait, interrupted, stopped, raisedRuns>>
vars == <<catalogVars, remoteVars, acqVars, histVars, watchVars,
          handed, prompt, replies, synced, mainVars>>

(***************************************************************************)
(* Catalog operations                                                      *)
(***************************************************************************)
\* an upsert that makes the row the only active one
UpsertChannel_Exclusive(tbl, cid) ==
  LET others == [i \in DOMAIN tbl |->
                   IF tbl[i].channel_id = cid THEN tbl[i]
                   ELSE [tbl[i] EXCEPT !.is_active = FALSE]]
  IN IF \E i \in DOMAIN tbl : tbl[i].channel_id = cid
     THEN [i \in DOMAIN tbl |->
             IF tbl[i].channel_id = cid THEN [tbl[i] EXCEPT !.is_active = TRUE]
             ELSE others[i]]
     ELSE Append(others, [channel_id |-> cid, is_active |-> TRUE])
\* table('channels').upsert({... 'is_active': True}, on_conflict='channel_id')
UpsertChannel(tbl, cid) ==
  IF \E i \in DOMAIN tbl : tbl[i].channel_id = cid
  THEN [i \in DOMAIN tbl |->
          IF tbl[i].channel_id = cid THEN [tbl[i] EXCEPT !.is_active = TRUE] ELSE tbl[i]]
  ELSE Append(tbl, [channel_id |-> cid, is_active |-> TRUE])

\* table('channels').select('channel_id').eq('is_active', True)
RECURSIVE ActiveIds(_)
ActiveIds(tbl) ==
  IF tbl = <<>> THEN <<>>
  ELSE (IF Head(tbl).is_active THEN <<Head(tbl).channel_id>> ELSE <<>>) \o ActiveIds(Tail(tbl))

\* table('channels').select('*').eq('channel_id', channel_id).single(): data['id']
ChannelDbId(tbl, cid) == CHOOSE i \in DOMAIN tbl : tbl[i].channel_id = cid

\* the whole list
RecentEntries_All(list) == list
\* info['entries'][:self.max_videos]
RecentEntries(list) == Take(list, max_videos)

\* the check left out
AlreadyInDatabase_Never(vs, vid) == FALSE
\* the check made to pass over rows whose download failed
AlreadyInDatabase_ExceptFailed(vs, vid) ==
  \E i \in DOMAIN vs : vs[i].video_id = vid /\ vs[i].download_status # "failed"
\* table('videos').select('id').eq('video_id', video_id): existing.data
AlreadyInDatabase(vs, vid) == \E i \in DOMAIN vs : vs[i].video_id = vid

\* table('videos').insert(video_data) with download_status 'downloading'
InsertVideo(vs, dbch, vid) ==
  Append(vs, [channel_id |-> dbch, video_id |-> vid, title |-> Title(vid),
              download_status |-> "downloading"])

\* the update filtered on the channel of the row instead of its id
UpdateStatus_ByChannel(vs, id, st) ==
  [i \in DOMAIN vs |->
     IF vs[i].channel_id = vs[id].channel_id
     THEN [vs[i] EXCEPT !.download_status = st] ELSE vs[i]]
\* table('videos').update({'download_status': st, ...}).eq('id', id)
UpdateStatus(vs, id, st) ==
  [i \in DOMAIN vs |-> IF i = id THEN [vs[i] EXCEPT !.download_status = st] ELSE vs[i]]

\* the error re-raised: it leaves run() as well
AfterChannelError_Propagates == "run_done"
\* where control goes when the except clause of download_channel_videos
\* (line 157) has caught an error: the function returns to run()'s loop
AfterChannelError == "channel_done"

(***************************************************************************)
(* Fetch engine: a channel publishes a new entry                           *)
(***************************************************************************)
Upload(c) ==
  /\ pending[c] # <<>>
  /\ remote' = [remote EXCEPT ![c] = <<Head(pending[c])>> \o @]
  /\ pending' = [pending EXCEPT ![c] = Tail(@)]
  /\ lastChange' = runNo
  /\ UNCHANGED <<catalogVars, acqVars, watchVars, listed, runAttempted, runRaised,
                 runFailed, videosAtRunStart, sameConfig>>
  /\ UNCHANGED <<handed, prompt, replies, synced, mainVars>>

(***************************************************************************)
(* main.run_downloader, YouTubeDownloader.__init__ and run                 *)
(***************************************************************************)
\* run_downloader(): YouTubeDownloader() reads CHANNEL_LIST, run() begins
StartRun ==
  /\ pcA \in {"idle", "run_done"}
  /\ runNo < MaxRuns
  /\ mode = "free" \/ pcM \in {"immediate", "job"}
  /\ pcM' = CASE pcM = "immediate" -> "in_immediate"
              [] pcM = "job" -> "in_job"
              [] OTHER -> pcM
  /\ runNo' = runNo + 1
  /\ \E cl \in ChannelLists :
       /\ channel_list' = cl
       /\ sameConfig' = (runNo = 0 \/ cl = channel_list)
  /\ syncIdx' = 1
  /\ pcA' = "sync"
  /\ active_channels' = <<>>
  /\ chIdx' = 1
  /\ entries' = <<>>
  /\ entIdx' = 1
  /\ videos_processed' = 0
  /\ video_db_id' = 0
  /\ listed' = FALSE
  /\ runAttempted' = {}
  /\ runRaised' = {}
  /\ runFailed' = {}
  /\ videosAtRunStart' = videos
  /\ synced' = {}
  /\ UNCHANGED <<catalogVars, remoteVars, watchVars, lastChange>>
  /\ UNCHANGED <<handed, prompt, replies, mode, wait, interrupted, stopped, raisedRuns>>

\* the try placed around the loop: the first raise ends the sync
AfterSyncError_Abort(i) == Len(channel_list) + 1
\* sync_channels lines 83-84: the except clause is inside the loop, the next
\* identifier follows
AfterSyncError(i) == i + 1

\* sync_channels: one iteration of the loop over channel_list
SyncChannel ==
  /\ pcA = "sync"
  /\ syncIdx <= Len(channel_list)
  /\ LET channel_id == channel_list[syncIdx] IN
       \/ /\ channel_id = ""                      \* not channel_id.strip(): continue
          /\ syncIdx' = syncIdx + 1
          /\ UNCHANGED <<channels, synced>>
       \/ /\ channel_id # ""
          /\ \E outcome \in {"ok", "extract_info raises", "upsert raises"} :
               IF outcome = "ok"
               THEN /\ channels' = UpsertChannel(channels, channel_id)
                    /\ synced' = synced \cup {channel_id}
                    /\ syncIdx' = syncIdx + 1
               ELSE /\ syncIdx' = AfterSyncError(syncIdx)
                    /\ UNCHANGED <<channels, synced>>
  /\ UNCHANGED <<videos, transcripts, processed_content, remoteVars, watchVars,
                 pcA, runNo, channel_list, active_channels, chIdx,
                 entries, entIdx, videos_processed, video_db_id, histVars>>
  /\ UNCHANGED <<handed, prompt, replies, mainVars>>

\* run(): select the active channels (line 168); a raise leaves run() and is
\* caught by run_downloader
GetActiveChannels ==
  /\ pcA = "sync"
  /\ syncIdx > Len(channel_list)
  /\ \E raises \in BOOLEAN :
       IF raises
       THEN /\ pcA' = "run_done"
            /\ raisedRuns' = raisedRuns \cup {runNo}
            /\ UNCHANGED <<active_channels, chIdx>>
       ELSE /\ active_channels' = ActiveIds(channels)
            /\ chIdx' = 1
            /\ pcA' = "channels"
            /\ UNCHANGED raisedRuns
  /\ synced' = {}
  /\ UNCHANGED <<catalogVars, remoteVars, watchVars, runNo, channel_list, syncIdx,
                 entries, entIdx, videos_processed, video_db_id, histVars>>
  /\ UNCHANGED <<handed, prompt, replies, mode, pcM, wait, interrupted, stopped>>

\* run(): the loop over active_channels.data is exhausted
RunReturns ==
  /\ pcA = "channels"
  /\ chIdx > Len(active_channels)
  /\ pcA' = "run_done"
  /\ UNCHANGED <<catalogVars, remoteVars, watchVars, runNo, channel_list, syncIdx,
                 active_channels, chIdx, entries, entIdx, videos_processed,
                 video_db_id, histVars>>
  /\ UNCHANGED <<handed, prompt, replies, synced, mainVars>>

(***************************************************************************)
(* YouTubeDownloader.download_channel_videos                               *)
(***************************************************************************)
CurChannel == active_channels[chIdx]
CurEntry == entries[entIdx]

\* the except clause at line 157: log, and the function returns
ChannelError ==
  /\ pcA' = AfterChannelError
  /\ runFailed' = runFailed \cup {CurChannel}

\* lines 96-106: list the channel's entries, look up its Channel row
ListChannel ==
  /\ pcA = "channels"
  /\ chIdx <= Len(active_channels)
  /\ \E outcome \in {"ok", "extract_info raises", "select raises"} :
       IF outcome = "ok"
       THEN /\ entries' = RecentEntries(remote[CurChannel])
            /\ listed' = TRUE
            /\ pcA' = "entry"
            /\ UNCHANGED runFailed
       ELSE /\ entries' = <<>>
            /\ listed' = FALSE
            /\ ChannelError
  /\ entIdx' = 1
  /\ videos_processed' = 0
  /\ video_db_id' = 0
  /\ UNCHANGED <<catalogVars, remoteVars, watchVars, runNo, channel_list, syncIdx,
                 active_channels, chIdx, runAttempted,
                 runRaised, videosAtRunStart, lastChange, sameConfig>>
  /\ UNCHANGED <<handed, prompt, replies, synced, mainVars>>

\* lines 107-117: the loop head and the existence check of one entry
CheckEntry ==
  /\ pcA = "entry"
  /\ entIdx <= Len(entries)
  /\ videos_processed < max_videos
  /\ \E raises \in BOOLEAN :
       IF raises
       THEN /\ ChannelError
            /\ UNCHANGED entIdx
       ELSE /\ UNCHANGED runFailed
            /\ IF AlreadyInDatabase(videos, CurEntry)
               THEN /\ entIdx' = entIdx + 1        \* continue
                    /\ pcA' = "entry"
               ELSE /\ pcA' = "insert"
                    /\ UNCHANGED entIdx
  /\ UNCHANGED <<catalogVars, remoteVars, watchVars, runNo, channel_list, syncIdx,
                 active_channels, chIdx, entries, videos_processed, video_db_id,
                 listed, runAttempted, runRaised, videosAtRunStart, lastChange, sameConfig>>
  /\ UNCHANGED <<handed, prompt, replies, synced, mainVars>>

\* lines 107-109 and 155: the slice is exhausted, or the break is taken
LoopExit ==
  /\ pcA = "entry"
  /\ (entIdx > Len(entries) \/ videos_processed >= max_videos)
  /\ pcA' = "channel_done"
  /\ UNCHANGED <<catalogVars, remoteVars, watchVars, runNo, channel_list, syncIdx,
                 active_channels, chIdx, entries, entIdx, videos_processed,
                 video_db_id, histVars>>
  /\ UNCHANGED <<handed, prompt, replies, synced, mainVars>>

\* lines 119-133: insert the Video row
InsertEntry ==
  /\ pcA = "insert"
  /\ \E raises \in BOOLEAN :
       IF raises
       THEN /\ ChannelError
            /\ UNCHANGED <<videos, video_db_id>>
       ELSE /\ videos' = InsertVideo(videos, ChannelDbId(channels, CurChannel), CurEntry)
            /\ video_db_id' = Len(videos) + 1
            /\ pcA' = "download"
            /\ UNCHANGED runFailed
  /\ UNCHANGED <<channels, transcripts, processed_content, remoteVars, watchVars, runNo,
                 channel_list, syncIdx, active_channels, chIdx, entries, entIdx,
                 videos_processed, listed, runAttempted, runRaised,
                 videosAtRunStart, lastChange, sameConfig>>
  /\ UNCHANGED <<handed, prompt, replies, synced, mainVars>>

\* lines 136-138: ydl.download
DownloadEntry ==
  /\ pcA = "download"
  /\ runAttempted' = runAttempted \cup {CurEntry}
  /\ \E raises \in BOOLEAN :
       IF raises
       THEN /\ pcA' = "mark_failed"
            /\ runRaised' = runRaised \cup {CurEntry}
       ELSE /\ pcA' = "mark_completed"
            /\ UNCHANGED runRaised
  /\ UNCHANGED <<catalogVars, remoteVars, watchVars, runNo, channel_list, syncIdx,
                 active_channels, chIdx, entries, entIdx, videos_processed,
                 video_db_id, listed, runFailed, videosAtRunStart, lastChange, sameConfig>>
  /\ UNCHANGED <<handed, prompt, replies, synced, mainVars>>

\* lines 140-147: the update to 'completed'; a raise is caught at line 149
MarkCompleted ==
  /\ pcA = "mark_completed"
  /\ \E raises \in BOOLEAN :
       IF raises
       THEN /\ pcA' = "mark_failed"
            /\ UNCHANGED <<videos, videos_processed, entIdx, video_db_id>>
       ELSE /\ videos' = UpdateStatus(videos, video_db_id, "completed")
            /\ videos_processed' = videos_processed + 1
            /\ entIdx' = entIdx + 1
            /\ video_db_id' = 0
            /\ pcA' = "entry"
  /\ UNCHANGED <<channels, transcripts, processed_content, remoteVars, watchVars, runNo,
                 channel_list, syncIdx, active_channels, chIdx, entries, histVars>>
  /\ UNCHANGED <<handed, prompt, replies, synced, mainVars>>

\* lines 149-153: the except clause of the download; a raise leaves the loop
MarkFailed ==
  /\ pcA = "mark_failed"
  /\ \E raises \in BOOLEAN :
       IF raises
       THEN /\ ChannelError
            /\ UNCHANGED <<videos, entIdx, video_db_id>>
       ELSE /\ videos' = UpdateStatus(videos, video_db_id, "failed")
            /\ entIdx' = entIdx + 1
            /\ video_db_id' = 0
            /\ pcA' = "entry"
            /\ UNCHANGED runFailed
  /\ UNCHANGED <<channels, transcripts, processed_content, remoteVars, watchVars, runNo,
                 channel_list, syncIdx, active_channels, chIdx, entries,
                 videos_processed, listed, runAttempted,
                 runRaised, videosAtRunStart, lastChange, sameConfig>>
  /\ UNCHANGED <<handed, prompt, replies, synced, mainVars>>

\* run() line 171: download_channel_videos has returned, next channel
ChannelReturns ==
  /\ pcA = "channel_done"
  /\ chIdx' = chIdx + 1
  /\ pcA' = "channels"
  /\ entries' = <<>>
  /\ entIdx' = 1
  /\ videos_processed' = 0
  /\ video_db_id' = 0
  /\ listed' = FALSE
  /\ UNCHANGED <<catalogVars, remoteVars, watchVars, runNo, channel_list, syncIdx,
                 active_channels, runAttempted, runRaised, runFailed,
                 videosAtRunStart, lastChange, sameConfig>>
  /\ UNCHANGED <<handed, prompt, replies, synced, mainVars>>

(***************************************************************************)
(* Transcript Matcher: TranscriptProcessor.find_video_by_filename          *)
(***************************************************************************)
\* lines 69-79: the fragment searched for; <<>> when the name has no "_"
TitleFragment(p) ==
  LET filename == Remove(Stem(p), Suffix)
      parts == Split1(filename, "_")
  IN IF Len(parts) >= 2 THEN <<Take(parts[2], TitlePrefixLen)>> ELSE <<>>

\* line 79: the ids of result.data, the rows whose title contains the fragment.
\* The query has no ORDER BY: result.data[0] is any one of them.
MatchingVideos(vs, p) ==
  IF TitleFragment(p) = <<>> THEN {}
  ELSE {i \in DOMAIN vs : ILikeContains(vs[i].title, TitleFragment(p)[1])}

\* rglob('*_transcript.txt') and event.src_path.endswith('_transcript.txt')
IsTranscriptName(f) == EndsWith(f, Suffix \o DotTxt)

\* the existence check left out
HasTranscript_Never(ts, vid) == FALSE
\* table('transcripts').select('id').eq('video_id', video['id']): existing.data
HasTranscript(ts, vid) == \E i \in DOMAIN ts : ts[i].video_id = vid

\* table('transcripts').insert({'video_id': video['id'], 'raw_transcript':
\* transcript_text, 'word_count': len(transcript_text.split()), ...})
InsertTranscript(ts, vid, text) ==
  Append(ts, [video_id |-> vid, raw_transcript |-> text,
              word_count |-> WordCount(text)])

\* the whole text rendered
RenderedText_Whole(text) == text
\* prompt_template.format(transcript=transcript_text[:8000])
RenderedText(text) == Take(text, PromptLimit)

\* the except clause of the parse raising again
InsightsFallback_Raise(content) == [ok |-> FALSE]
\* lines 147-148: except: content_json = {'raw': content}
InsightsFallback(content) == [ok |-> TRUE, json |-> [raw |-> content]]

\* lines 141-150: the content stored for a response, by task
ParseContent(type, content) ==
  CASE type = "keywords" ->
         LET parts == SplitAll(content, ",")
         IN [ok |-> TRUE, json |-> [keywords |-> [i \in DOMAIN parts |-> Strip(parts[i])]]]
    [] type = "insights" ->
         IF JsonLoads(content).ok
         THEN [ok |-> TRUE, json |-> JsonLoads(content).val]
         ELSE InsightsFallback(content)
    [] OTHER -> [ok |-> TRUE, json |-> [content |-> content]]

\* table('processed_content').insert({'transcript_id': ..., 'processing_type': ...,
\* 'content': content_json, ...})
InsertContent(pc, tid, type, json) ==
  Append(pc, [transcript_id |-> tid, processing_type |-> type, content |-> json])

\* the try placed around the loop: the first raise ends it
AfterTaskError_Abort(i) == Len(ProcessTypes) + 1
\* process_with_ai line 166: the except clause is inside the loop, the next
\* task follows
AfterTaskError(i) == i + 1

\* the return after the warning left out
AfterNotFound_FallThrough == "insert"
\* process_transcript lines 94-96: no Video was found, log and return
AfterNotFound == "return"

\* the insert error swallowed, process_with_ai called all the same
AfterInsertError_Continue == "ai"
\* process_transcript line 115: a raise of the Transcript insert leaves the
\* function before process_with_ai is called
AfterInsertError == "return"

(***************************************************************************)
(* Watched folder and event source                                         *)
(***************************************************************************)
\* the scan's rglob generator is still being consumed
Scanning == ~observing /\ pcW \notin {"start", "crashed"}

\* a file is created; the observer, once started, queues a creation event;
\* the directory walk of a scan in progress may or may not come across it
CreateFile(f) ==
  /\ f \in arrivals
  /\ arrivals' = arrivals \ {f}
  /\ folder' = folder \cup {f}
  /\ events' = IF observing THEN events \cup {f} ELSE events
  /\ \E seen \in BOOLEAN :
       scanTodo' = IF seen /\ Scanning /\ IsTranscriptName(f)
                   THEN scanTodo \cup {f} ELSE scanTodo
  /\ UNCHANGED <<catalogVars, remoteVars, acqVars, histVars, dups, failing, pcW,
                 observing, caller, path, video, transcript_id, taskIdx, scanHist>>
  /\ UNCHANGED <<handed, prompt, replies, synced, mainVars>>

\* the event source delivers a creation event for a file a second time
DuplicateEvent(f) ==
  /\ observing
  /\ f \in folder
  /\ f \notin events
  /\ dups < MaxDup
  /\ dups' = dups + 1
  /\ events' = events \cup {f}
  /\ UNCHANGED <<catalogVars, remoteVars, acqVars, histVars, folder, arrivals,
                 failing, procVars, scanHist>>
  /\ UNCHANGED <<handed, prompt, replies, synced, mainVars>>

(***************************************************************************)
(* TranscriptProcessor.run, scan_existing_transcripts                      *)
(***************************************************************************)
\* process_transcript returns to the scan loop or to the observer
Return ==
  /\ pcW' = IF caller = "scan" THEN "scan" ELSE "watching"
  /\ caller' = "none"
  /\ path' = <<>>
  /\ video' = 0
  /\ transcript_id' = 0
  /\ taskIdx' = 1
  /\ scanVideo' = 0

\* run() line 188, scan_existing_transcripts line 173: the scan begins
StartScan ==
  /\ pcW = "start"
  /\ pcW' = "scan"
  /\ scanTodo' = {f \in folder : IsTranscriptName(f)}
  /\ foundAtStart' = {f \in folder : IsTranscriptName(f)}
  /\ scanResolved' = {}
  /\ scanCreated' = {}
  /\ UNCHANGED <<catalogVars, remoteVars, acqVars, histVars, fsVars, observing,
                 caller, path, video, transcript_id, taskIdx, scanVideo>>
  /\ UNCHANGED <<handed, prompt, replies, synced, mainVars>>

\* lines 173-183: one file of the scan; a raise of either select leaves run()
ScanFile ==
  /\ pcW = "scan"
  /\ \E f \in scanTodo :
       /\ scanTodo' = scanTodo \ {f}
       /\ \/ /\ MatchingVideos(videos, f) = {}          \* video is None
             /\ UNCHANGED <<pcW, caller, path, scanVideo, scanResolved, handed>>
          \/ /\ TitleFragment(f) # <<>>                 \* a select raises
             /\ pcW' = "crashed"
             /\ UNCHANGED <<caller, path, scanVideo, scanResolved, handed>>
          \/ \E m \in MatchingVideos(videos, f) :
               /\ scanResolved' = scanResolved \cup {<<f, m>>}
               /\ IF HasTranscript(transcripts, m)
                  THEN UNCHANGED <<pcW, caller, path, scanVideo, handed>>
                  ELSE /\ pcW' = "process"              \* process_transcript(f)
                       /\ caller' = "scan"
                       /\ path' = f
                       /\ scanVideo' = m
                       /\ handed' = handed \cup {f}
  /\ UNCHANGED <<catalogVars, remoteVars, acqVars, histVars, fsVars, observing,
                 video, transcript_id, taskIdx, foundAtStart, scanCreated>>
  /\ UNCHANGED <<prompt, replies, synced, mainVars>>

\* run() lines 191-196: the scan is over, the observer is started
StartObserver ==
  /\ pcW = "scan"
  /\ scanTodo = {}
  /\ pcW' = "watching"
  /\ observing' = TRUE
  /\ UNCHANGED <<catalogVars, remoteVars, acqVars, histVars, fsVars, scanTodo,
                 caller, path, video, transcript_id, taskIdx, scanHist>>
  /\ UNCHANGED <<handed, prompt, replies, synced, mainVars>>

\* TranscriptHandler.on_created: the observer dispatches one queued event
OnCreated ==
  /\ pcW = "watching"
  /\ \E f \in events :
       /\ events' = events \ {f}
       /\ IF IsTranscriptName(f)
          THEN /\ pcW' = "process"
               /\ caller' = "event"
               /\ path' = f
               /\ handed' = handed \cup {f}
          ELSE UNCHANGED <<pcW, caller, path, handed>>
  /\ UNCHANGED <<catalogVars, remoteVars, acqVars, histVars, folder, arrivals,
                 dups, failing, observing, scanTodo, video, transcript_id,
                 taskIdx, scanHist>>
  /\ UNCHANGED <<prompt, replies, synced, mainVars>>

(***************************************************************************)
(* Artifact Pipeline: process_transcript, process_with_ai                  *)
(***************************************************************************)
\* lines 87-96: read the file, resolve the Video
FindVideo ==
  /\ pcW = "process"
  /\ \/ /\ Return                     \* open or the select raises
        /\ UNCHANGED <<scanTodo, observing>>
     \/ /\ MatchingVideos(videos, path) = {}    \* find_video_by_filename: None
        /\ IF AfterNotFound = "return"
           THEN Return
           ELSE /\ pcW' = "insert"
                /\ video' = 0
                /\ UNCHANGED <<caller, path, transcript_id, taskIdx, scanVideo>>
        /\ UNCHANGED <<scanTodo, observing>>
     \/ \E m \in MatchingVideos(videos, path) :
          /\ video' = m
          /\ pcW' = "insert"
          /\ UNCHANGED <<scanTodo, observing, caller, path, transcript_id,
                         taskIdx, scanVideo>>
  /\ UNCHANGED <<catalogVars, remoteVars, acqVars, histVars, fsVars,
                 foundAtStart, scanResolved, scanCreated>>
  /\ UNCHANGED <<handed, prompt, replies, synced, mainVars>>

\* lines 98-110: insert the Transcript row
SaveTranscript ==
  /\ pcW = "insert"
  /\ \E raises \in BOOLEAN :
       IF raises
       THEN /\ IF AfterInsertError = "return"
               THEN Return
               ELSE /\ pcW' = "ai"
                    /\ UNCHANGED <<caller, path, video, transcript_id, taskIdx, scanVideo>>
            /\ UNCHANGED <<transcripts, scanCreated>>
       ELSE /\ transcripts' = InsertTranscript(transcripts, video, Content(path))
            /\ transcript_id' = Len(transcripts) + 1
            /\ scanCreated' = IF caller = "scan"
                              THEN scanCreated \cup {Len(transcripts) + 1}
                              ELSE scanCreated
            /\ pcW' = "ai"
            /\ UNCHANGED <<caller, path, video, taskIdx, scanVideo>>
  /\ UNCHANGED <<channels, videos, processed_content, remoteVars, acqVars, histVars,
                 fsVars, observing, scanTodo, foundAtStart, scanResolved>>
  /\ UNCHANGED <<handed, prompt, replies, synced, mainVars>>

\* process_with_ai lines 120-167: one derivation task; the inference call,
\* the parsing or the insert raises for the tasks in failing
AITask ==
  /\ pcW = "ai"
  /\ taskIdx <= Len(ProcessTypes)
  /\ LET parsed == ParseContent(ProcessTypes[taskIdx], replies[taskIdx])
     IN IF ProcessTypes[taskIdx] \in failing \/ ~parsed.ok
        THEN /\ taskIdx' = AfterTaskError(taskIdx)
             /\ UNCHANGED processed_content
        ELSE /\ processed_content' =
                  InsertContent(processed_content, transcript_id,
                                ProcessTypes[taskIdx], parsed.json)
             /\ taskIdx' = taskIdx + 1
  /\ prompt' = RenderedText(Content(path))
  /\ UNCHANGED <<channels, videos, transcripts, remoteVars, acqVars, histVars,
                 fsVars, pcW, observing, scanTodo, caller, path, video,
                 transcript_id, foundAtStart, scanVideo, scanResolved, scanCreated>>
  /\ UNCHANGED <<handed, replies, synced, mainVars>>

\* process_with_ai and process_transcript return
PipelineReturns ==
  /\ pcW = "ai"
  /\ taskIdx > Len(ProcessTypes)
  /\ Return
  /\ prompt' = <<>>
  /\ UNCHANGED <<catalogVars, remoteVars, acqVars, histVars, fsVars, observing,
                 scanTodo, foundAtStart, scanResolved, scanCreated>>
  /\ UNCHANGED <<handed, replies, synced, mainVars>>

(***************************************************************************)
(* main.main and the signal that ends the process                          *)
(***************************************************************************)
\* a poll that finds the job due whatever the time
JobDue_Always(w) == TRUE
\* schedule.run_pending(): the job runs when its next run time has come
JobDue(w) == w = 0

\* main() lines 40-50: single-shot, or the processor thread is started and the
\* job scheduled for one interval from now
MainStart ==
  /\ pcM = "main"
  /\ pcM' = "immediate"
  /\ IF mode = "long"
     THEN /\ pcW' = "start"
          /\ wait' = PollsPerInterval
     ELSE UNCHANGED <<pcW, wait>>
  /\ UNCHANGED <<catalogVars, remoteVars, acqVars, histVars, fsVars, observing,
                 scanTodo, caller, path, video, transcript_id, taskIdx, scanHist>>
  /\ UNCHANGED <<handed, prompt, replies, synced, mode, interrupted, stopped, raisedRuns>>

\* run_downloader returns, after a run that returned or raised (lines 21-28):
\* main() returns (line 42), enters the polling loop (line 57) after a run
\* that took less than a poll or more than the interval, or the job is
\* scheduled again for one interval from now
RunDownloaderReturns ==
  /\ pcM \in {"in_immediate", "in_job"}
  /\ pcA = "run_done"
  /\ IF mode = "single"
     THEN /\ pcM' = "exit"
          /\ UNCHANGED wait
     ELSE IF pcM = "in_immediate"
     THEN /\ pcM' = "pending"
          /\ \E elapsed \in {0, wait} : wait' = wait - elapsed
     ELSE /\ pcM' = "sleep"
          /\ wait' = PollsPerInterval
  /\ UNCHANGED <<catalogVars, remoteVars, acqVars, histVars, watchVars>>
  /\ UNCHANGED <<handed, prompt, replies, synced, mode, interrupted, stopped, raisedRuns>>

\* line 58: schedule.run_pending()
RunPending ==
  /\ pcM = "pending"
  /\ pcM' = IF JobDue(wait) THEN "job" ELSE "sleep"
  /\ UNCHANGED <<catalogVars, remoteVars, acqVars, histVars, watchVars>>
  /\ UNCHANGED <<handed, prompt, replies, synced, mode, wait, interrupted, stopped,
                 raisedRuns>>

\* line 59: time.sleep(60)
Sleep ==
  /\ pcM = "sleep"
  /\ pcM' = "pending"
  /\ wait' = IF wait > 0 THEN wait - 1 ELSE 0
  /\ UNCHANGED <<catalogVars, remoteVars, acqVars, histVars, watchVars>>
  /\ UNCHANGED <<handed, prompt, replies, synced, mode, interrupted, stopped, raisedRuns>>

\* the process receives SIGINT: KeyboardInterrupt is raised in the main
\* thread.  In main() nothing catches it (run_downloader catches Exception,
\* which KeyboardInterrupt is not): the process exits and its daemon thread
\* ends with it.  In TranscriptProcessor.run() on the main thread
\* (transcript_processor.py lines 205-207) it is caught at line 201 once the
\* loop of line 198 is entered, and leaves run() before that.
Interrupt ==
  /\ mode # "free"
  /\ ~interrupted
  /\ pcM # "exit"
  /\ pcW \notin {"exit", "stopped", "crashed"} \/ mode # "watch"
  /\ interrupted' = TRUE
  /\ IF mode = "watch"
     THEN /\ IF observing
             THEN /\ stopped' = TRUE              \* observer.stop(), observer.join()
                  /\ pcW' = "stopped"
             ELSE /\ pcW' = "exit"
                  /\ UNCHANGED stopped
          /\ UNCHANGED <<pcM, pcA>>
     ELSE /\ pcM' = "exit"
          /\ pcA' = IF pcA \in {"idle", "run_done"} THEN pcA ELSE "interrupted"
          /\ pcW' = IF pcW = "unstarted" THEN pcW ELSE "killed"
          /\ UNCHANGED stopped
  /\ UNCHANGED <<catalogVars, remoteVars, runNo, channel_list, syncIdx, active_channels,
                 chIdx, entries, entIdx, videos_processed, video_db_id, histVars,
                 fsVars, observing, scanTodo, caller, path, video, transcript_id,
                 taskIdx, scanHist>>
  /\ UNCHANGED <<handed, prompt, replies, synced, mode, wait, raisedRuns>>

(***************************************************************************)
(* Specification                                                           *)
(***************************************************************************)
\* the state after construction, over a given catalog and environment
InitWith(chs, vs, ts, runs, files, dupsUsed, down, answers, shapes) ==
  /\ mode \in shapes
  /\ channels = chs
  /\ videos = vs
  /\ transcripts \in ts
  /\ processed_content = <<>>
  /\ remote = InitialRemote
  /\ pending = LaterUploads
  /\ pcA = "idle"
  /\ runNo = runs
  /\ channel_list = <<>>
  /\ syncIdx = 1
  /\ active_channels = <<>>
  /\ chIdx = 1
  /\ entries = <<>>
  /\ entIdx = 1
  /\ videos_processed = 0
  /\ video_db_id = 0
  /\ listed = FALSE
  /\ runAttempted = {}
  /\ runRaised = {}
  /\ runFailed = {}
  /\ videosAtRunStart = vs
  /\ lastChange = 0
  /\ sameConfig = TRUE
  /\ folder = {}
  /\ arrivals \in files
  /\ events = {}
  /\ dups = dupsUsed
  /\ failing \in down
  /\ pcW = IF mode \in {"single", "long"} THEN "unstarted" ELSE "start"
  /\ observing = FALSE
  /\ scanTodo = {}
  /\ caller = "none"
  /\ path = <<>>
  /\ video = 0
  /\ transcript_id = 0
  /\ taskIdx = 1
  /\ foundAtStart = {}
  /\ scanVideo = 0
  /\ scanResolved = {}
  /\ scanCreated = {}
  /\ handed = {}
  /\ prompt = <<>>
  /\ replies \in answers
  /\ synced = {}
  /\ pcM = IF mode \in {"single", "long"} THEN "main" ELSE "none"
  /\ wait = 0
  /\ interrupted = FALSE
  /\ stopped = FALSE
  /\ raisedRuns = {}

\* every task answered with the same text
SameReply(r) == [k \in DOMAIN ProcessTypes |-> r]

\* the catalog as an earlier Acquisition run can leave it: both channels
\* synced, v2 completed, v1 failed
LoadedChannels ==
  <<[channel_id |-> "c1", is_active |-> TRUE], [channel_id |-> "c2", is_active |-> TRUE]>>
LoadedVideos ==
  <<[channel_id |-> 1, video_id |-> "v2", title |-> Title("v2"),
     download_status |-> "completed"],
    [channel_id |-> 1, video_id |-> "v1", title |-> Title("v1"),
     download_status |-> "failed"]>>

\* an empty catalog, every run still to come
Init == InitWith(<<>>, <<>>, {<<>>}, 0, {FileNames}, 0, {{}},
           {SameReply(ReplyEmpty)}, {"free"})

Acquisition ==
  \/ StartRun
  \/ SyncChannel
  \/ GetActiveChannels
  \/ ListChannel
  \/ CheckEntry
  \/ LoopExit
  \/ InsertEntry
  \/ DownloadEntry
  \/ MarkCompleted
  \/ MarkFailed
  \/ ChannelReturns
  \/ RunReturns

FetchEngine == \E c \in ChannelIds : Upload(c)

FileSystem ==
  \/ \E f \in AllFiles : CreateFile(f)
  \/ \E f \in AllFiles : DuplicateEvent(f)

WatchLoop ==
  \/ StartScan
  \/ ScanFile
  \/ StartObserver
  \/ OnCreated
  \/ FindVideo
  \/ SaveTranscript
  \/ AITask
  \/ PipelineReturns

Next ==
  \/ Acquisition
  \/ FetchEngine
  \/ FileSystem
  \/ WatchLoop

\* the long-running deployment: the Acquisition runs that follow the first
\* and the Watch Loop side by side, over the catalog the first run has filled;
\* the second and the fourth derivation task raise
InitSystem ==
  InitWith(LoadedChannels, LoadedVideos, {<<>>}, 1, {{FileQ}}, MaxDup - 1,
           {{"chapters", "insights"}}, {SameReply(ReplyEmpty)}, {"free"})

Spec == InitSystem /\ [][Next]_vars

\* the Acquisition Engine alone (single-shot deployments)
SpecAcquisition == Init /\ [][Acquisition \/ FetchEngine]_vars

\* the Watch Loop alone, over a catalog an earlier run has filled
InitWatch ==
  InitWith(LoadedChannels, LoadedVideos,
           {<<>>, InsertTranscript(<<>>, 1, Content(FileBC))},
           1, {FileNames}, 0, SUBSET Range(ProcessTypes), {SameReply(ReplyEmpty)}, {"free"})

SpecWatch == InitWatch /\ [][WatchLoop \/ FileSystem]_vars

\* the two deployments of main() and the processor started on its own, over
\* a catalog an earlier run has filled and an empty watched folder
Main ==
  \/ MainStart
  \/ RunDownloaderReturns
  \/ RunPending
  \/ Sleep
InitMain ==
  InitWith(LoadedChannels, LoadedVideos, {<<>>}, 0, {{}}, 0, {{}},
           {SameReply(ReplyEmpty)}, {"single", "long", "watch"})

SpecMain ==
  InitMain /\ [][Main \/ Acquisition \/ StartScan \/ StartObserver \/ Interrupt]_vars
\* the main thread keeps running while it has a step to take
SpecMainFair == SpecMain /\ WF_vars(Main \/ Acquisition)

\* the Transcript Matcher on one artifact at a time, over a catalog holding the
\* Videos v5 and v6
MatcherVideos ==
  <<[channel_id |-> 1, video_id |-> "v5", title |-> Title("v5"),
     download_status |-> "completed"],
    [channel_id |-> 1, video_id |-> "v6", title |-> Title("v6"),
     download_status |-> "completed"]>>
InitMatcher ==
  InitWith(LoadedChannels, MatcherVideos, {<<>>}, 1, {{f} : f \in MatcherFiles}, 0, {{}},
           {SameReply(ReplyEmpty)}, {"free"})

SpecMatcher == InitMatcher /\ [][WatchLoop \/ FileSystem]_vars

\* the Artifact Pipeline on one artifact at a time, every task answered with
\* the same response, over a catalog holding the Video v4
PipelineVideos ==
  <<[channel_id |-> 1, video_id |-> "v4", title |-> Title("v4"),
     download_status |-> "completed"]>>
InitPipeline ==
  InitWith(LoadedChannels, PipelineVideos, {<<>>}, 1, {{f} : f \in TextFiles}, 0,
           {{}, {"summary"}}, {SameReply(r) : r \in Replies}, {"free"})

SpecPipeline == InitPipeline /\ [][WatchLoop \/ FileSystem]_vars

(***************************************************************************)
(* Properties of the Acquisition Engine                                    *)
(***************************************************************************)
VideoRows(vid) == {i \in DOMAIN videos : videos[i].video_id = vid}
StatusOf(vid) == videos[CHOOSE i \in VideoRows(vid) : TRUE].download_status
\* the external identifiers of the Video rows the current run has inserted
RunInserted ==
  {videos[i].video_id : i \in (Len(videosAtRunStart) + 1)..Len(videos)}
CataloguedAtRunStart(vid) ==
  \E i \in DOMAIN videosAtRunStart : videosAtRunStart[i].video_id = vid
FailedAtRunStart(vid) ==
  \E i \in DOMAIN videosAtRunStart :
    /\ videosAtRunStart[i].video_id = vid
    /\ videosAtRunStart[i].download_status = "failed"
\* neither the remote lists nor CHANNEL_LIST have changed since the run
\* before the current one began
UnchangedSincePreviousRun == runNo >= 2 /\ lastChange + 2 <= runNo /\ sameConfig
\* download_channel_videos has returned after its loop ran to the end
LoopCompleted == pcA = "channel_done" /\ listed /\ entIdx > Len(entries)

\* C1 (as amended): the catalog never holds two Video rows for one external
\* identifier, and a run inserts a row and attempts a download only for an
\* identifier that had no row when the run began
C1_Idempotent ==
  /\ \A v \in VideoIds : Cardinality(VideoRows(v)) <= 1
  /\ \A v \in RunInserted \cup runAttempted : ~CataloguedAtRunStart(v)

\* C1 witness: a second run has gone through the whole list of c1, both of
\* whose entries the first run had catalogued
C1_Witness ==
  /\ runNo = 2
  /\ LoopCompleted
  /\ CurChannel = "c1"
  /\ \A e \in Range(entries) : CataloguedAtRunStart(e)
  /\ Len(entries) = 2

\* C1 (as stated): the catalog never holds two Video rows for one external
\* identifier, and a second run against an unchanged list inserts no Video row
\* and attempts no download
C1_SecondRunIdle ==
  /\ \A v \in VideoIds : Cardinality(VideoRows(v)) <= 1
  /\ UnchangedSincePreviousRun => RunInserted = {} /\ runAttempted = {}

\* C4 (as stated): when download_channel_videos returns, the run has inserted a
\* row and attempted a download for exactly the entries of the window that were
\* not catalogued, and each of them is failed if its download raised and
\* completed otherwise
C4_OutcomePerChannel ==
  (pcA = "channel_done" /\ listed) =>
    LET window == Range(entries)
        new == {e \in window : ~CataloguedAtRunStart(e)}
    IN /\ RunInserted \cap window = new
       /\ runAttempted \cap window = new
       /\ \A e \in new :
            /\ Cardinality(VideoRows(e)) = 1
            /\ StatusOf(e) = IF e \in runRaised THEN "failed" ELSE "completed"

\* C5 (as stated): whatever fails while one entry is handled, the loop goes on
\* to every later entry of the window
C5_EntryIsolation ==
  (pcA = "channel_done" /\ listed) => entIdx > Len(entries)

\* C6: when run() returns after selecting the active channels, its loop has
\* called download_channel_videos for every one of them, whichever failed
C6_ChannelIsolation ==
  pcA = "run_done" => chIdx > Len(active_channels)

\* C6 witness: the call for one channel ended in its except clause and a
\* later channel of the same run had its entry inserted
C6_Witness ==
  /\ pcA = "run_done"
  /\ \E i, j \in DOMAIN active_channels :
       /\ i < j
       /\ active_channels[i] \in runFailed
       /\ active_channels[j] \notin runFailed
       /\ \E k \in DOMAIN videos :
            /\ k > Len(videosAtRunStart)
            /\ videos[k].channel_id = ChannelDbId(channels, active_channels[j])

\* C8 (as amended): a Video that was failed when a run began is not attempted
\* again by that run; it keeps its status and its single row
C8_NoRetry ==
  \A v \in VideoIds :
    FailedAtRunStart(v) =>
      /\ v \notin runAttempted
      /\ Cardinality(VideoRows(v)) = 1
      /\ StatusOf(v) = "failed"

\* C8 witness: a later run has gone through a window that holds a failed entry
C8_Witness ==
  /\ LoopCompleted
  /\ \E e \in Range(entries) : FailedAtRunStart(e)

\* C8 (as stated): a later run whose window still holds a failed entry attempts
\* its download again, and no second Video row is created for it
C8_RetryOnRerun ==
  /\ \A v \in VideoIds : FailedAtRunStart(v) => Cardinality(VideoRows(v)) = 1
  /\ LoopCompleted =>
       \A e \in Range(entries) : FailedAtRunStart(e) => e \in runAttempted

(***************************************************************************)
(* Properties of the Watch Loop and the Artifact Pipeline                  *)
(***************************************************************************)
TranscriptsOf(v) == {i \in DOMAIN transcripts : transcripts[i].video_id = v}
ContentOf(tid, type) ==
  {i \in DOMAIN processed_content :
     /\ processed_content[i].transcript_id = tid
     /\ processed_content[i].processing_type = type}
\* the files the scan has resolved to Video v
ScanResolvedTo(v) == {f \in FileNames \cup {FileQ} : <<f, v>> \in scanResolved}
\* the Transcript rows the scan has created for Video v out of files its own
\* lookup had resolved to v as well
ScanCreatedFor(v) ==
  {i \in scanCreated :
     /\ transcripts[i].video_id = v
     /\ \E f \in ScanResolvedTo(v) : transcripts[i].raw_transcript = Content(f)}
\* the Transcript rows that were there before the scan began; only the scan
\* inserts while it runs
BeforeScan(v) == TranscriptsOf(v) \ scanCreated
\* process_with_ai has gone through its whole table of tasks
TasksDone == pcW = "ai" /\ taskIdx > Len(ProcessTypes)

\* C2 (as stated): an artifact that was in the folder when the Watch Loop
\* started and that the startup scan has ingested is never run through the
\* pipeline again, whatever events are delivered afterwards: no second
\* Transcript row stores it for its Video
C2_IngestedOnce ==
  \A i \in scanCreated :
    (\E f \in foundAtStart : transcripts[i].raw_transcript = Content(f)) =>
      \A j \in DOMAIN transcripts :
        j # i => transcripts[j].raw_transcript # transcripts[i].raw_transcript

\* C3: when process_with_ai has gone through its tasks, each task that did
\* not raise has inserted exactly one row for the Transcript and each task
\* that raised has inserted none
C3_FanOutIsolation ==
  TasksDone =>
    \A k \in DOMAIN ProcessTypes :
      Cardinality(ContentOf(transcript_id, ProcessTypes[k])) =
        IF ProcessTypes[k] \in failing THEN 0 ELSE 1

\* C3 witness: the first and the third task have raised, the second and the
\* fourth have each inserted their row
C3_Witness ==
  /\ TasksDone
  /\ failing = {"summary", "keywords"}
  /\ ContentOf(transcript_id, "chapters") # {}
  /\ ContentOf(transcript_id, "insights") # {}

\* the guard of the scan: process_transcript is running on behalf of the scan
\* only for a file the scan resolved to a Video that had no Transcript
ScanGuard ==
  (caller = "scan" /\ pcW \in {"process", "insert"}) =>
    /\ <<path, scanVideo>> \in scanResolved
    /\ scanVideo \in DOMAIN videos
    /\ ~HasTranscript(transcripts, scanVideo)

\* a scan all of whose resolved Videos had a Transcript inserts nothing
ScanOfTranscribed ==
  (~observing /\ \A fv \in scanResolved : BeforeScan(fv[2]) # {}) => scanCreated = {}

\* C10 (as amended): the guard; the artifacts that both the scan's lookup and
\* the pipeline's own lookup resolve to one Video give it at most one
\* Transcript during the scan; a scan of transcribed Videos inserts nothing
C10_ReconciliationGuard ==
  /\ ScanGuard
  /\ \A v \in DOMAIN videos : Cardinality(ScanCreatedFor(v)) <= 1
  /\ ScanOfTranscribed

\* C10 witness: the scan has resolved two files to one Video that had no
\* Transcript, has ingested the first and passed over the second
C10_Witness ==
  /\ pcW = "scan"
  /\ \E v \in DOMAIN videos :
       /\ Cardinality(ScanResolvedTo(v)) >= 2
       /\ BeforeScan(v) = {}
       /\ Cardinality(ScanCreatedFor(v)) = 1
       /\ Cardinality(TranscriptsOf(v)) = 1

\* C10 (as stated): the guard, and between two files of the scan every Video
\* without a Transcript to which the scan has resolved several files has
\* exactly one Transcript
C10_ExactlyOnePerVideo ==
  /\ ScanGuard
  /\ pcW = "scan" =>
       \A v \in DOMAIN videos :
         (Cardinality(ScanResolvedTo(v)) >= 2 /\ BeforeScan(v) = {}) =>
           Cardinality(TranscriptsOf(v)) = 1
  /\ ScanOfTranscribed

(***************************************************************************)
(* Properties of the two tasks side by side                                *)
(***************************************************************************)
\* C7: a step changes the status of a Video row only from downloading to
\* completed or to failed, and never removes or re-keys a row
C7_StatusMonotonic ==
  [][\A i \in DOMAIN videos :
       /\ i \in DOMAIN videos'
       /\ videos'[i].video_id = videos[i].video_id
       /\ videos'[i].download_status # videos[i].download_status =>
            /\ videos[i].download_status = "downloading"
            /\ videos'[i].download_status \in {"completed", "failed"}]_vars

\* C7 witness: with a completed and a failed row in the catalog, a later run
\* has inserted and completed another Video of the same channel while the
\* Watch Loop has stored a Transcript
C7_Witness ==
  /\ pcA = "run_done"
  /\ \E i, j, k \in DOMAIN videos :
       /\ videos[i].download_status = "completed" /\ i <= Len(videosAtRunStart)
       /\ videos[j].download_status = "failed" /\ j <= Len(videosAtRunStart)
       /\ videos[k].download_status = "completed" /\ k > Len(videosAtRunStart)
       /\ videos[k].channel_id = videos[i].channel_id
  /\ transcripts # <<>>

\* C9: a Transcript row is inserted with the id of a Video row that is there,
\* a processed_content row with the id of a Transcript row that is there, and
\* process_with_ai runs only with the id of the Transcript just inserted
C9_ReferentialOrder ==
  [][/\ Len(transcripts') > Len(transcripts) =>
          transcripts'[Len(transcripts')].video_id \in DOMAIN videos
     /\ Len(processed_content') > Len(processed_content) =>
          processed_content'[Len(processed_content')].transcript_id \in DOMAIN transcripts
     /\ pcW' = "ai" => transcript_id' \in DOMAIN transcripts'
     /\ \A i \in DOMAIN transcripts : i \in DOMAIN transcripts' /\ transcripts'[i] = transcripts[i]
     /\ \A i \in DOMAIN videos : i \in DOMAIN videos']_vars

\* C9 witness: while an Acquisition run is under way, the Watch Loop has
\* stored a Transcript and an Artifact for a Video that run has inserted
C9_Witness ==
  /\ pcA \notin {"idle", "run_done"}
  /\ \E t \in DOMAIN transcripts :
       /\ transcripts[t].video_id > Len(videosAtRunStart)
       /\ \E a \in DOMAIN processed_content : processed_content[a].transcript_id = t

(***************************************************************************)
(* Properties of the Transcript Matcher                                    *)
(***************************************************************************)
\* the Videos whose title the matcher finds for the file being processed
Found == MatchingVideos(videos, path)

\* C11: process_transcript on an artifact for which the matcher finds no
\* Video returns to its caller and leaves the catalog and the queues of the
\* Watch Loop as they were; a Transcript is inserted and the inference
\* service called only for an artifact the matcher has resolved
C11_Unresolvable ==
  [][/\ (pcW = "process" /\ pcW' # "process" /\ Found = {}) =>
          /\ catalogVars' = catalogVars
          /\ pcW' = IF caller = "scan" THEN "scan" ELSE "watching"
          /\ events' = events
          /\ scanTodo' = scanTodo
     /\ pcW \in {"insert", "ai"} => Found # {}
     /\ (transcripts' # transcripts \/ processed_content' # processed_content) =>
          Found # {}]_vars

\* C11 witness: the handler has run process_transcript on the one artifact of
\* the folder, which has no "_" left or no matching title, and the Watch Loop
\* is back to watching over an empty catalog of Transcripts
C11_Witness ==
  /\ pcW = "watching"
  /\ handed \in {{FileNoSep}, {FileZZ}}
  /\ events = {}
  /\ transcripts = <<>>
  /\ processed_content = <<>>

\* the fragment the claim expects for each artifact name
ExpectedFragment(f) ==
  CASE f = FileIntro ->
        <<"I", "n", "t", "r", "o", "_", "t", "o", "_", "S", "y", "s", "t",
          "e", "m", "s">>
    [] f = FileAdvanced ->
        <<"a", "d", "v", "a", "n", "c", "e", "d", "_", "d", "i", "s", "t",
          "r", "i", "b", "u", "t", "e", "d">>
    [] OTHER -> <<"z", "z">>
\* the rows of MatcherVideos the claim expects each artifact to resolve to
ExpectedMatch(f) ==
  CASE f = FileIntro -> {1}
    [] f = FileAdvanced -> {2}
    [] OTHER -> {}

\* frag occurs in title at offset off, letter case apart, a "_" of frag
\* standing for any one character
FragmentAt(title, frag, off) ==
  \A k \in DOMAIN frag :
    frag[k] = "_" \/ Lower(frag[k]) = Lower(title[off + k])
\* frag occurs in title at offset off, letter case apart
SubstringAt(title, frag, off) ==
  \A k \in DOMAIN frag : Lower(frag[k]) = Lower(title[off + k])

\* C12 (as amended): the fragment is the text after the first "_" of the name
\* without its extension and "_transcript", cut to 20 characters; the Videos
\* found are those whose title holds the fragment letter case apart, each "_"
\* of the fragment standing for any one character; the Video returned is one
\* of them, and the example resolves to "Intro to Systems"
C12_Matching ==
  (pcW \in {"process", "insert"} /\ path \in MatcherFiles) =>
    /\ path # FileNoSep => TitleFragment(path) = <<ExpectedFragment(path)>>
    /\ path = FileNoSep => TitleFragment(path) = <<>>
    /\ Found = ExpectedMatch(path)
    /\ pcW = "insert" =>
         /\ video \in Found
         /\ \E off \in 0..(Len(videos[video].title) - Len(ExpectedFragment(path))) :
              FragmentAt(videos[video].title, ExpectedFragment(path), off)
         /\ path = FileIntro => videos[video].video_id = "v5"

\* C12 witness: the example has been resolved to the Video titled
\* "Intro to Systems" and its Transcript stored
C12_Witness ==
  /\ pcW = "ai"
  /\ path = FileIntro
  /\ videos[video].title = IntroTitle
  /\ transcripts[transcript_id].video_id = video

\* C12 (as stated): the Video returned has a title that contains the fragment
\* as a substring, letter case apart
C12_SubstringMatch ==
  (pcW = "insert" /\ path \in MatcherFiles) =>
    /\ video \in Found
    /\ \E off \in 0..(Len(videos[video].title) - Len(ExpectedFragment(path))) :
         SubstringAt(videos[video].title, ExpectedFragment(path), off)

(***************************************************************************)
(* Properties of the Artifact Pipeline                                     *)
(***************************************************************************)
\* the length and the number of words of the text of each file
TextLength(f) ==
  CASE f = FileFull -> 8000 [] f = FileOver -> 8001 [] f = FileLong -> 50000 [] OTHER -> 7
TextWords(f) ==
  CASE f = FileFull -> 1600 [] f = FileOver -> 1601 [] f = FileLong -> 10000 [] OTHER -> 2
PromptLength(f) == IF f \in {FileFull, FileOver, FileLong} THEN 8000 ELSE 7

\* C13: the text rendered into the prompt of every task is the first
\* min(L, 8000) characters of the transcript, and the Transcript row holds
\* the whole text of L characters with the word count of the whole text
C13_Truncation ==
  /\ [](\A i \in DOMAIN transcripts :
          \E f \in handed :
            /\ transcripts[i].raw_transcript = Content(f)
            /\ Len(transcripts[i].raw_transcript) = TextLength(f)
            /\ transcripts[i].word_count = TextWords(f))
  /\ [][(pcW = "ai" /\ taskIdx' = taskIdx + 1) =>
          /\ Len(prompt') = PromptLength(path)
          /\ \A i \in 1..Len(prompt') : prompt'[i] = transcripts[transcript_id].raw_transcript[i]
          /\ Len(transcripts[transcript_id].raw_transcript) = TextLength(path)]_vars
C13_Witness ==
  /\ pcW = "ai"
  /\ taskIdx > Len(ProcessTypes)
  /\ path = FileLong
  /\ Len(prompt) = 8000
  /\ Len(processed_content) = Len(ProcessTypes)
  /\ Len(transcripts) = 1
  /\ Len(transcripts[1].raw_transcript) = 50000
  /\ transcripts[1].word_count = 10000

\* the content expected for each response
ExpectedInsights(r) ==
  CASE r = ReplyObject -> [dict |-> << <<(<<"a">>), [int |-> 1]>> >>]
    [] r = ReplyNumber -> [int |-> 7]
    [] r = ReplyArray -> [list |-> <<[str |-> <<"x">>], [null |-> TRUE]>>]
    [] OTHER -> [raw |-> r]
ExpectedKeywords(r) ==
  CASE r = ReplyWords -> << <<"a">>, <<"b">>, <<"c">> >>
    [] r = ReplyArray -> << <<"[", "\"", "x", "\"">>, <<"n", "u", "l", "l", "]">> >>
    [] OTHER -> <<r>>
ExpectedContent(type, r) ==
  CASE type = "insights" -> ExpectedInsights(r)
    [] type = "keywords" -> [keywords |-> ExpectedKeywords(r)]
    [] OTHER -> [content |-> r]

\* C14: an insights response that is not valid JSON still gives an Artifact
\* row, wrapping the raw text; a valid one is stored as parsed; keywords are
\* stored as the trimmed pieces between commas, summary and chapters as the
\* wrapped text
C14_ParsingFallback ==
  /\ \A i \in DOMAIN processed_content :
       processed_content[i].content =
         ExpectedContent(processed_content[i].processing_type, replies[1])
  /\ (pcW = "ai" /\ taskIdx > Len(ProcessTypes)) =>
       \A k \in DOMAIN ProcessTypes :
         ProcessTypes[k] \notin failing =>
           \E i \in DOMAIN processed_content :
             /\ processed_content[i].transcript_id = transcript_id
             /\ processed_content[i].processing_type = ProcessTypes[k]
C14_Witness ==
  /\ pcW = "ai"
  /\ taskIdx > Len(ProcessTypes)
  /\ replies[4] = ReplyCut
  /\ \E i \in DOMAIN processed_content :
       /\ processed_content[i].processing_type = "insights"
       /\ processed_content[i].content = [raw |-> ReplyCut]
  /\ \E i \in DOMAIN processed_content :
       /\ processed_content[i].processing_type = "keywords"
       /\ processed_content[i].content = [keywords |-> <<ReplyCut>>]

(***************************************************************************)
(* Properties of the Channel Registry                                      *)
(***************************************************************************)
ChannelRows(cid) == {i \in DOMAIN channels : channels[i].channel_id = cid}
SyncDone == pcA = "sync" /\ syncIdx > Len(channel_list)

\* C15: a raise for one identifier of channel_list does not end the sync: the
\* loop goes on to the next identifier; every identifier whose lookup and
\* upsert returned has exactly one Channel row, active, and no identifier
\* ever has two rows, however often the sync is repeated
C15_SyncIsolation ==
  /\ [](\A cid \in ChannelIds : Cardinality(ChannelRows(cid)) <= 1)
  /\ [](\A cid \in synced :
          /\ cid # ""
          /\ \E i \in DOMAIN channel_list : i < syncIdx /\ channel_list[i] = cid
          /\ \E i \in ChannelRows(cid) : ChannelRows(cid) = {i} /\ channels[i].is_active)
  /\ [][(pcA = "sync" /\ syncIdx <= Len(channel_list)) =>
          /\ syncIdx' = syncIdx + 1
          /\ pcA' = "sync"
          /\ channels' # channels => channel_list[syncIdx] \in synced'
          /\ \A i \in DOMAIN channels : channels'[i] = channels[i]]_<<pcA, syncIdx, channels>>
C15_Witness ==
  /\ SyncDone
  /\ runNo = 2
  /\ channel_list = <<"c1", "", "c2">>
  /\ synced = {"c2"}
  /\ Cardinality(ChannelRows("c1")) = 1
  /\ Cardinality(ChannelRows("c2")) = 1
  /\ Len(channels) = 2

\* rows are kept: the table is longer or as long, and every row it had is
\* still the row of the same key
Kept(old, new, key) ==
  /\ Len(new) >= Len(old)
  /\ \A i \in DOMAIN old : new[i][key] = old[i][key]

\* C16: no step removes a Channel, Video, Transcript or Artifact row; no step
\* deactivates a Channel, in the configured list or not; and the channels a
\* run processes are all the active ones, those no longer configured included
C16_NoDeletion ==
  [][/\ Kept(channels, channels', "channel_id")
     /\ \A i \in DOMAIN channels : channels[i].is_active => channels'[i].is_active
     /\ Kept(videos, videos', "video_id")
     /\ Kept(transcripts, transcripts', "raw_transcript")
     /\ Kept(processed_content, processed_content', "processing_type")
     /\ \A i \in DOMAIN transcripts : transcripts'[i] = transcripts[i]
     /\ \A i \in DOMAIN processed_content : processed_content'[i] = processed_content[i]
     /\ (pcA = "sync" /\ pcA' = "channels") =>
          \A i \in DOMAIN channels :
            channels[i].is_active =>
              \E k \in DOMAIN active_channels' :
                active_channels'[k] = channels[i].channel_id]_vars
C16_Witness ==
  /\ runNo = 2
  /\ channel_list = <<"c1">>
  /\ pcA = "run_done"
  /\ \E i \in DOMAIN channels : channels[i].channel_id = "c2" /\ channels[i].is_active
  /\ \E i \in DOMAIN videos :
       /\ i > Len(videosAtRunStart)
       /\ videos[i].video_id = "v4"
       /\ channels[videos[i].channel_id].channel_id = "c2"

(***************************************************************************)
(* Properties of the cap on the entries of a run                           *)
(***************************************************************************)
\* the rows the current run has inserted for the channel of catalog id dbch
RunInsertedFor(dbch) ==
  {i \in (Len(videosAtRunStart) + 1)..Len(videos) : videos[i].channel_id = dbch}

\* C17: the entries a run considers for a channel are the first max_videos
\* entries of the list it read; it inserts a Video row and attempts a download
\* only for one of them, so for at most max_videos per channel
C17_CapPerRun ==
  /\ [](/\ Len(entries) <= max_videos
        /\ videos_processed <= max_videos
        /\ \A c \in DOMAIN channels : Cardinality(RunInsertedFor(c)) <= max_videos)
  /\ [][/\ (pcA = "channels" /\ pcA' = "entry") =>
           /\ Len(entries') <= max_videos
           /\ \A i \in DOMAIN entries' : entries'[i] = remote[active_channels[chIdx]][i]
           /\ \A i \in DOMAIN remote[active_channels[chIdx]] :
                i <= max_videos => i \in DOMAIN entries'
        /\ Len(videos') > Len(videos) =>
           /\ entIdx <= max_videos
           /\ entIdx \in DOMAIN entries
           /\ videos'[Len(videos')].video_id = entries[entIdx]
        /\ \A v \in runAttempted' \ runAttempted :
             entIdx <= max_videos /\ entIdx \in DOMAIN entries /\ v = entries[entIdx]]_vars
C17_Witness ==
  /\ runNo = 2
  /\ pcA = "run_done"
  /\ remote["c1"] = <<"v3", "v2", "v1">>
  /\ CataloguedAtRunStart("v2")
  /\ "v3" \in RunInserted
  /\ "v3" \in runAttempted
  /\ \A i \in DOMAIN videos : videos[i].video_id # "v1"

(***************************************************************************)
(* Properties of the deployments                                           *)
(***************************************************************************)
\* a step of main(), in either deployment
ScheduleStep ==
  mode \in {"single", "long"} =>
    /\ runNo' # runNo =>
         /\ pcA \in {"idle", "run_done"}
         /\ pcM \in {"immediate", "job"}
         /\ pcM = "immediate" <=> runNo = 0
         /\ pcM = "job" => wait = 0
    /\ (pcM = "pending" /\ pcM' # pcM /\ ~interrupted') =>
         pcM' = IF wait = 0 THEN "job" ELSE "sleep"
    /\ (pcM = "sleep" /\ pcM' # pcM /\ ~interrupted') =>
         /\ pcM' = "pending"
         /\ wait' = IF wait > 0 THEN wait - 1 ELSE 0
    /\ (pcM \in {"in_immediate", "in_job"} /\ pcM' # pcM /\ ~interrupted') =>
         pcA = "run_done"
    /\ (pcM = "in_job" /\ pcM' # pcM /\ ~interrupted') =>
         pcM' = "sleep" /\ wait' = (2 * 3600) \div 60

\* C18: single-shot, main() runs the Acquisition Engine once, never starts
\* the Watch Loop and returns, also after a run that raised; long-running,
\* the Watch Loop is started on its thread before the immediate run, a later
\* run begins only at a poll that finds the interval elapsed, the polls are
\* one sleep apart, a run begins only when the one before has returned, and
\* the job is scheduled again after a run that raised as after any other
C18_DeploymentShapes ==
  /\ [](mode = "single" => pcW = "unstarted" /\ ~observing /\ runNo <= 1)
  /\ []((mode = "single" /\ pcM = "exit" /\ ~interrupted) =>
          runNo = 1 /\ pcA = "run_done")
  /\ (mode = "single") ~> (pcM = "exit")
  /\ []((mode = "long" /\ pcM # "main" /\ ~interrupted) => pcW # "unstarted")
  /\ []((mode = "long" /\ ~interrupted) => pcM # "exit")
  /\ [][ScheduleStep]_vars
C18_Witness ==
  /\ mode = "long"
  /\ ~interrupted
  /\ pcW = "watching"
  /\ runNo = 2
  /\ pcM = "in_job"
  /\ 1 \in raisedRuns

\* C19: the observer is started only when the scan is over, the Watch Loop
\* runs until the process is interrupted, and an interruption that finds the
\* observer started reaches observer.stop(), in every deployment
C19_CleanShutdown ==
  /\ observing => pcW \notin {"unstarted", "start", "scan"} /\ scanTodo = {}
  /\ ~interrupted => pcW \notin {"stopped", "exit", "killed"}
  /\ (interrupted /\ observing) => stopped

(***************************************************************************)
(* Properties of the arrivals                                              *)
(***************************************************************************)
\* the scan has looked the file up
ScanExamined(f) == \E m \in DOMAIN videos : <<f, m>> \in scanResolved

\* C20: once the Watch Loop is watching and has no event left to dispatch,
\* every transcript file of the watched folder has been handed to
\* process_transcript by the scan or by on_created, or has been looked up
\* by the scan
C20_NoArrivalLost ==
  (pcW = "watching" /\ events = {}) =>
    \A f \in folder : IsTranscriptName(f) => f \in handed \/ ScanExamined(f)

====
